---- MODULE Spec2Model ----
(***************************************************************************)
(* Joy: the joystick-to-drone command dispatcher of src/joy.py.            *)
(* JoystickController.run() starts two threads over one shared deque:      *)
(*   - _receive_command_loop polls joystick events and appends commands,   *)
(*   - _send_command_loop pops commands and sends each with scapy's sr1,   *)
(* while the main thread sits in _run_loop until KeyboardInterrupt and     *)
(* then clears the queue, appends "land" and joins both threads.           *)
(* Every access to the deque and to _running is one atomic step (CPython   *)
(* executes deque.append / pop / clear and an attribute load or store      *)
(* under the interpreter lock); the steps of the three threads interleave. *)
(***************************************************************************)
EXTENDS Integers, Sequences, FiniteSets, TLC

VARIABLES
    running,        \* self._running
    command_queue,  \* self._command_queue: the deque, left end first
    axis_state,     \* self._axis_state
    mainPc,         \* position of the main thread in run()
    recvPc,         \* position of the _receive_command_loop thread
    sendPc,         \* position of the _send_command_loop thread
    remaining,      \* events of the current get_events() batch not yet handled
    dispatched,     \* what the joystick thread resolved its last event to
    cmd,            \* local `cmd` of _send_command_loop
    answer,         \* local `answer` of _send_command_loop (result of sr1)
    outcome,        \* what _send_command_loop printed for `cmd`
    sent,           \* the payloads handed to sr1, in order
    nextId,         \* number of append() calls so far, plus one
    landId,         \* identity of the "land" appended by run(), 0 before
    pendingEmergency \* an "emergency" was appended and no pop succeeded since

vars == <<running, command_queue, axis_state, mainPc, recvPc, sendPc,
          remaining, dispatched, cmd, answer, outcome, sent, nextId, landId,
          pendingEmergency>>

----------------------------------------------------------------------------
(* Bounds of the model. *)

\* the joystick thread appends at most MaxCmds commands
MaxCmds == 2
\* get_events() returns at most MaxBatch events per poll
MaxBatch == 2

----------------------------------------------------------------------------
(* Constants and maps of JoystickController.__init__. *)

AXIS_DEAD == 2500
AXIS_MAX_VAL == 32767

button_map == <<"A", "B", "X", "Y", "LB", "RB", "SELECT", "START", "JL", "JR">>
axis_map == <<"LEFT_X", "LEFT_Y", "LT", "RIGHT_X", "RIGHT_Y", "RT">>

event_map == [SELECT  |-> "_land",
              START   |-> "_takeoff",
              A       |-> "_emergency_land",
              Y       |-> "_command",
              LEFT_X  |-> "_set_roll",
              LEFT_Y  |-> "_set_pitch",
              RIGHT_X |-> "_set_yaw",
              RIGHT_Y |-> "_set_quota"]

InitAxisState == [roll |-> 0, quota |-> 0, yaw |-> 0, pitch |-> 0]

----------------------------------------------------------------------------
(* Inputs: the joystick events SDL can deliver.  Indices are unsigned; one *)
(* index past the end of each map is included.                             *)

ButtonIndices == 0..Len(button_map)
AxisIndices == 0..Len(axis_map)
\* raw axis readings: the low end of the hardware range, the dead-zone
\* boundary on both sides, the centre, the first value outside the dead zone
\* and a half deflection
RawValues == {-32768, -2500, 0, 2500, 2501, 16383}
\* the events used where the three threads interleave: buttons A (clear and
\* append), B (unmapped), START (append) and an index past the end; a mapped
\* axis, an unmapped one and an index past the end, each with a reading
\* inside the dead zone and one outside
ThreadedButtonIndices == {0, 1, 7, Len(button_map)}
ThreadedAxisIndices == {0, 2, Len(axis_map)}
ThreadedRawValues == {2500, 16383}

ButtonEvents == [type : {"JOYBUTTONDOWN"}, index : ButtonIndices, value : {0}]
AxisEvents == [type : {"JOYAXISMOTION"}, index : AxisIndices, value : RawValues]
OtherEvents == [type : {"OTHER"}, index : {0}, value : {0}]
Events == ButtonEvents \cup AxisEvents \cup OtherEvents
ThreadedEvents ==
    {e \in Events :
        /\ e.type = "JOYBUTTONDOWN" => e.index \in ThreadedButtonIndices
        /\ e.type = "JOYAXISMOTION" => /\ e.index \in ThreadedAxisIndices
                                       /\ e.value \in ThreadedRawValues}

NoCmd == [cmd |-> "", id |-> 0]

\* what sr1 can return: None after the timeout, a reply whose Raw payload
\* decodes, a reply whose Raw payload is not valid UTF-8, a reply with no
\* Raw layer (an empty datagram)
Answers == {"None", "text", "undecodable", "noraw"}

----------------------------------------------------------------------------
(* Pure helpers. *)

Abs(x) == IF x >= 0 THEN x ELSE -x

\* a division that rounds toward minus infinity
TruncDivFloor(a, b) == a \div b

\* Python's int(a / b) for b > 0: truncation toward zero
TruncDiv(a, b) == IF a >= 0 THEN a \div b ELSE -((-a) \div b)

\* a normalization that divides by the dead-zone threshold
NormalizeByDead(raw_val) == TruncDiv(raw_val * 100, AXIS_DEAD)

\* a normalization that rounds to the nearest integer
NormalizeRound(raw_val) ==
    IF raw_val >= 0
      THEN (2 * raw_val * 100 + AXIS_MAX_VAL) \div (2 * AXIS_MAX_VAL)
      ELSE -((2 * (-raw_val) * 100 + AXIS_MAX_VAL) \div (2 * AXIS_MAX_VAL))

\* int(raw_val * 100 / self._AXIS_MAX_VAL)
Normalize(raw_val) == TruncDiv(raw_val * 100, AXIS_MAX_VAL)

\* the `val` computed by _set_roll / _set_yaw (plain) and _set_quota /
\* _set_pitch (negated)
AxisVal(axis, raw_val) ==
    IF axis \in {"quota", "pitch"} THEN -Normalize(raw_val)
                                   ELSE Normalize(raw_val)

\* the axis a handler of event_map writes
HandlerAxis(handler) ==
    CASE handler = "_set_roll"  -> "roll"
      [] handler = "_set_pitch" -> "pitch"
      [] handler = "_set_yaw"   -> "yaw"
      [] handler = "_set_quota" -> "quota"

\* the f-string of _dispatch_axis_update
RcCommand(st) ==
    "rc " \o ToString(st.roll) \o " " \o ToString(st.pitch) \o " "
          \o ToString(st.quota) \o " " \o ToString(st.yaw)

\* a lookup whose miss in event_map is not caught by the loop
LookupMissFatal(map, index) ==
    IF index + 1 > Len(map) THEN "IndexError"
    ELSE IF map[index + 1] \notin DOMAIN event_map THEN "IndexError"
    ELSE event_map[map[index + 1]]

\* self._event_map[map[index]]: the exception raised, or the handler's name
Lookup(map, index) ==
    IF index + 1 > Len(map) THEN "IndexError"
    ELSE IF map[index + 1] \notin DOMAIN event_map THEN "KeyError"
    ELSE event_map[map[index + 1]]

\* deque.append(x)
DequeAppend(q, x) == Append(q, x)

\* a pop from the left end (popleft)
DequePopLeft(q) == [item |-> Head(q), rest |-> Tail(q)]

\* a pop that returns the right end without removing it
DequePopPeek(q) == [item |-> q[Len(q)], rest |-> q]

\* deque.pop() on a non-empty deque: the element returned and the deque left
DequePop(q) == [item |-> q[Len(q)], rest |-> SubSeq(q, 1, Len(q) - 1)]

\* a _land that clears whatever `force` is
LandQueueClears(q, force) == << >>

\* `if force: self._command_queue.clear()` of _land: the deque the append
\* then works on
LandQueue(q, force) == IF force THEN << >> ELSE q

\* deque.clear()
DequeClear(q) == << >>

Entry(c) == [cmd |-> c, id |-> nextId]

Ids(q) == {q[i].id : i \in 1..Len(q)}

Range(q) == {q[i] : i \in 1..Len(q)}

----------------------------------------------------------------------------
(* Initial state: after JoystickController(), before run(). *)

Init ==
    /\ running = TRUE
    /\ command_queue = << >>
    /\ axis_state = InitAxisState
    /\ mainPc = "start_recv"
    /\ recvPc = "new"
    /\ sendPc = "new"
    /\ remaining = 0
    /\ dispatched = "none"
    /\ cmd = NoCmd
    /\ answer = "unset"
    /\ outcome = "none"
    /\ sent = << >>
    /\ nextId = 1
    /\ landId = 0
    /\ pendingEmergency = FALSE

----------------------------------------------------------------------------
(* The main thread: run() and _run_loop(). *)

\* threads[0].start()
MainStartRecv ==
    /\ mainPc = "start_recv"
    /\ recvPc' = "check"
    /\ mainPc' = "start_send"
    /\ UNCHANGED <<running, command_queue, axis_state, sendPc, remaining,
                   dispatched, cmd, answer, outcome, sent, nextId, landId,
                   pendingEmergency>>

\* threads[1].start()
MainStartSend ==
    /\ mainPc = "start_send"
    /\ sendPc' = "check"
    /\ mainPc' = "run_loop"
    /\ UNCHANGED <<running, command_queue, axis_state, recvPc, remaining,
                   dispatched, cmd, answer, outcome, sent, nextId, landId,
                   pendingEmergency>>

\* _run_loop: KeyboardInterrupt arrives during the sleep loop
MainInterrupt ==
    /\ mainPc = "run_loop"
    /\ running' = FALSE
    /\ mainPc' = "shutdown_clear"
    /\ UNCHANGED <<command_queue, axis_state, recvPc, sendPc, remaining,
                   dispatched, cmd, answer, outcome, sent, nextId, landId,
                   pendingEmergency>>

\* self._command_queue.clear() of run()
MainClear ==
    /\ mainPc = "shutdown_clear"
    /\ command_queue' = DequeClear(command_queue)
    /\ mainPc' = "shutdown_land"
    /\ UNCHANGED <<running, axis_state, recvPc, sendPc, remaining, dispatched,
                   cmd, answer, outcome, sent, nextId, landId,
                   pendingEmergency>>

\* self._land() of run(): force is False, so only the append
MainLand ==
    /\ mainPc = "shutdown_land"
    /\ command_queue' = DequeAppend(LandQueue(command_queue, FALSE),
                                    Entry("land"))
    /\ landId' = nextId
    /\ nextId' = nextId + 1
    /\ mainPc' = "join_recv"
    /\ UNCHANGED <<running, axis_state, recvPc, sendPc, remaining, dispatched,
                   cmd, answer, outcome, sent, pendingEmergency>>

Terminated(pc) == pc \in {"done", "dead"}

\* threads[0].join()
MainJoinRecv ==
    /\ mainPc = "join_recv"
    /\ Terminated(recvPc)
    /\ mainPc' = "join_send"
    /\ UNCHANGED <<running, command_queue, axis_state, recvPc, sendPc,
                   remaining, dispatched, cmd, answer, outcome, sent, nextId,
                   landId, pendingEmergency>>

\* threads[1].join(), then run() returns
MainJoinSend ==
    /\ mainPc = "join_send"
    /\ Terminated(sendPc)
    /\ mainPc' = "exited"
    /\ UNCHANGED <<running, command_queue, axis_state, recvPc, sendPc,
                   remaining, dispatched, cmd, answer, outcome, sent, nextId,
                   landId, pendingEmergency>>

----------------------------------------------------------------------------
(* The joystick thread: _receive_command_loop and the handlers it calls.   *)

\* `while self._running` of _receive_command_loop
RecvLoopCond == running

\* a dead zone that excludes its boundary
AboveDeadZoneIncl(value) == Abs(value) >= AXIS_DEAD

\* a loop without the dead-zone test
AboveDeadZoneOff(value) == TRUE

\* abs(event.jaxis.value) > self._AXIS_DEAD
AboveDeadZone(value) == Abs(value) > AXIS_DEAD

\* a setter without change detection
AxisChangedAlways(axis, val) == TRUE

\* `if self._axis_state[axis] != val` of _set_roll/_set_pitch/_set_yaw/_set_quota
AxisChanged(axis, val) == axis_state[axis] # val

\* What line 131 or lines 133-134 evaluate to for event e, before any handler
\* runs: "deadzone" or "other" (nothing to call), an exception, or the
\* handler's name.
Dispatch(e) ==
    CASE e.type = "JOYBUTTONDOWN" -> Lookup(button_map, e.index)
      [] e.type = "JOYAXISMOTION" ->
            IF AboveDeadZone(e.value) THEN Lookup(axis_map, e.index)
                                      ELSE "deadzone"
      [] OTHER -> "other"

\* where the thread is after an event: the for loop goes on, or the while
\* condition is evaluated again
AfterEvent(n) == IF n = 0 THEN "check" ELSE "events"

\* `while self._running:` and, when it holds, sdl2.ext.get_events()
RecvCheck ==
    /\ recvPc = "check"
    /\ IF RecvLoopCond
         THEN \E n \in 0..MaxBatch :
                 /\ remaining' = n
                 /\ recvPc' = AfterEvent(n)
         ELSE /\ recvPc' = "done"
              /\ UNCHANGED remaining
    /\ UNCHANGED <<running, command_queue, axis_state, mainPc, sendPc,
                   dispatched, cmd, answer, outcome, sent, nextId, landId,
                   pendingEmergency>>

\* an append by the joystick thread
RecvAppend(c) ==
    /\ nextId <= MaxCmds
    /\ command_queue' = DequeAppend(command_queue, Entry(c))
    /\ nextId' = nextId + 1

\* one iteration of `for event in sdl2.ext.get_events()`
RecvEvent(e) ==
    /\ recvPc = "events"
    /\ remaining > 0
    /\ remaining' = remaining - 1
    /\ dispatched' = Dispatch(e)
    /\ LET h == Dispatch(e) IN
       CASE h = "IndexError" ->
              \* not a KeyError: leaves the loops and ends the thread
              /\ recvPc' = "dead"
              /\ UNCHANGED <<command_queue, axis_state, nextId>>
         [] h \in {"KeyError", "deadzone", "other"} ->
              /\ recvPc' = AfterEvent(remaining')
              /\ UNCHANGED <<command_queue, axis_state, nextId>>
         [] h = "_land" ->
              \* self._land() is called without arguments: force is False
              /\ nextId <= MaxCmds
              /\ command_queue' = DequeAppend(LandQueue(command_queue, FALSE),
                                              Entry("land"))
              /\ nextId' = nextId + 1
              /\ recvPc' = AfterEvent(remaining')
              /\ UNCHANGED axis_state
         [] h = "_takeoff" ->
              /\ RecvAppend("takeoff")
              /\ recvPc' = AfterEvent(remaining')
              /\ UNCHANGED axis_state
         [] h = "_command" ->
              /\ RecvAppend("command")
              /\ recvPc' = AfterEvent(remaining')
              /\ UNCHANGED axis_state
         [] h = "_emergency_land" ->
              \* the clear(); the append is the thread's next step
              /\ nextId <= MaxCmds
              /\ command_queue' = DequeClear(command_queue)
              /\ recvPc' = "emergency_append"
              /\ UNCHANGED <<axis_state, nextId>>
         [] OTHER ->
              LET axis == HandlerAxis(h)
                  val == AxisVal(axis, e.value)
              IN  IF AxisChanged(axis, val)
                    THEN /\ axis_state' = [axis_state EXCEPT ![axis] = val]
                         /\ RecvAppend(RcCommand(axis_state'))
                         /\ recvPc' = AfterEvent(remaining')
                    ELSE /\ recvPc' = AfterEvent(remaining')
                         /\ UNCHANGED <<command_queue, axis_state, nextId>>
    /\ pendingEmergency' = pendingEmergency
    /\ UNCHANGED <<running, mainPc, sendPc, cmd, answer, outcome, sent,
                   landId>>

\* self._command_queue.append('emergency') of _emergency_land
RecvEmergencyAppend ==
    /\ recvPc = "emergency_append"
    /\ command_queue' = DequeAppend(command_queue, Entry("emergency"))
    /\ nextId' = nextId + 1
    /\ pendingEmergency' = TRUE
    /\ recvPc' = AfterEvent(remaining)
    /\ UNCHANGED <<running, axis_state, mainPc, sendPc, remaining, dispatched,
                   cmd, answer, outcome, sent, landId>>

----------------------------------------------------------------------------
(* The sender thread: _send_command_loop. *)

\* a sender loop that never looks at the flag
SendLoopForever == TRUE

\* `while self._running` of _send_command_loop
SendLoopCond == running

\* What `answer[Raw].load.decode()` does with what sr1 returned: None is not
\* subscriptable, a packet without Raw raises IndexError, bytes that are not
\* UTF-8 raise UnicodeDecodeError.
Decode(a) ==
    CASE a = "None"        -> "TypeError"
      [] a = "noraw"       -> "IndexError"
      [] a = "undecodable" -> "UnicodeDecodeError"
      [] a = "text"        -> "ok"

\* what the loop prints after `EXE cmd:`, "none" when it prints nothing
Report(result) ==
    CASE result = "ok"        -> "response"
      [] result = "TypeError" -> "unknown"
      [] OTHER                -> "none"

\* a loop without the `except TypeError` clause
AfterReplyNoTypeError(result) ==
    CASE result = "ok"         -> "check"
      [] result = "IndexError" -> "sleep"
      [] OTHER                 -> "dead"

\* a loop that goes back to the pop without testing `running` again
AfterReplySkipTest(result) ==
    CASE result \in {"ok", "TypeError"} -> "pop"
      [] result = "IndexError"          -> "sleep"
      [] OTHER                          -> "dead"

\* where the loop goes: `except TypeError` continues, `except IndexError`
\* sleeps, any other exception leaves the function
AfterReply(result) ==
    CASE result \in {"ok", "TypeError"} -> "check"
      [] result = "IndexError"          -> "sleep"
      [] OTHER                          -> "dead"

SendCheck ==
    /\ sendPc = "check"
    /\ sendPc' = IF SendLoopCond THEN "pop" ELSE "done"
    /\ UNCHANGED <<running, command_queue, axis_state, mainPc, recvPc,
                   remaining, dispatched, cmd, answer, outcome, sent, nextId,
                   landId, pendingEmergency>>

\* cmd = self._command_queue.pop(), and sr1 putting cmd on the wire
SendPop ==
    /\ sendPc = "pop"
    /\ IF Len(command_queue) = 0
         THEN /\ sendPc' = "sleep"
              /\ UNCHANGED <<command_queue, cmd, answer, outcome, sent,
                             pendingEmergency>>
         ELSE LET p == DequePop(command_queue) IN
              /\ cmd' = p.item
              /\ command_queue' = p.rest
              /\ sent' = Append(sent, p.item)
              /\ answer' = "unset"
              /\ outcome' = "none"
              /\ pendingEmergency' = FALSE
              /\ sendPc' = "sr1"
    /\ UNCHANGED <<running, axis_state, mainPc, recvPc, remaining, dispatched,
                   nextId, landId>>

\* sr1 returns (a reply, or None after timeout=0.2) and the reply is handled
SendReply(a) ==
    /\ sendPc = "sr1"
    /\ answer' = a
    /\ outcome' = Report(Decode(a))
    /\ sendPc' = AfterReply(Decode(a))
    /\ UNCHANGED <<running, command_queue, axis_state, mainPc, recvPc,
                   remaining, dispatched, cmd, sent, nextId, landId,
                   pendingEmergency>>

\* time.sleep(0.5); continue
SendWake ==
    /\ sendPc = "sleep"
    /\ sendPc' = "check"
    /\ UNCHANGED <<running, command_queue, axis_state, mainPc, recvPc,
                   remaining, dispatched, cmd, answer, outcome, sent, nextId,
                   landId, pendingEmergency>>

----------------------------------------------------------------------------
(* Specifications. *)

MainStep == MainStartRecv \/ MainStartSend \/ MainClear \/ MainLand
            \/ MainJoinRecv \/ MainJoinSend
RecvStep == RecvCheck \/ (\E e \in ThreadedEvents : RecvEvent(e))
            \/ RecvEmergencyAppend
SendStep == SendCheck \/ SendPop \/ (\E a \in Answers : SendReply(a)) \/ SendWake

Next ==
    \/ MainStartRecv
    \/ MainStartSend
    \/ MainInterrupt
    \/ MainClear
    \/ MainLand
    \/ MainJoinRecv
    \/ MainJoinSend
    \/ RecvCheck
    \/ \E e \in ThreadedEvents : RecvEvent(e)
    \/ RecvEmergencyAppend
    \/ SendCheck
    \/ SendPop
    \/ \E a \in Answers : SendReply(a)
    \/ SendWake

Spec == Init /\ [][Next]_vars

\* Every started thread keeps being scheduled; the interrupt is external and
\* may never come.
FairSpec == Spec /\ WF_vars(MainStep) /\ WF_vars(RecvStep) /\ WF_vars(SendStep)

\* The joystick thread on its own, over every event: the runs in which
\* threads[0] has been started and the other threads are not scheduled.
InitInput ==
    /\ running = TRUE
    /\ command_queue = << >>
    /\ axis_state = InitAxisState
    /\ mainPc = "start_send"
    /\ recvPc = "check"
    /\ sendPc = "new"
    /\ remaining = 0
    /\ dispatched = "none"
    /\ cmd = NoCmd
    /\ answer = "unset"
    /\ outcome = "none"
    /\ sent = << >>
    /\ nextId = 1
    /\ landId = 0
    /\ pendingEmergency = FALSE

NextInput ==
    \/ RecvCheck
    \/ \E e \in Events : RecvEvent(e)
    \/ RecvEmergencyAppend

SpecInput == InitInput /\ [][NextInput]_vars

----------------------------------------------------------------------------
(* Properties. *)

\* C1: once run() has appended its shutdown "land", that command has been
\* dequeued and put on the wire by the time the sender thread has ended.
C1_LandSentBeforeSenderEnds ==
    (landId # 0 /\ Terminated(sendPc)) => landId \in Ids(sent)

\* C2: commands go on the wire in the order they were appended (FCFS): of
\* two transmitted commands, the one appended first was transmitted first.
C2_FCFS ==
    \A i, j \in 1..Len(sent) : i < j => sent[i].id < sent[j].id

\* C3: after _emergency_land has run, the next command the sender dequeues
\* is "emergency".
C3_EmergencyNext ==
    [][(pendingEmergency /\ Len(sent') > Len(sent)) => cmd'.cmd = "emergency"]_vars

\* C4: no command is duplicated or lost: the appended commands in the queue
\* and on the wire are all different, and a command leaves the queue only by
\* the sender's pop (which transmits it) or by a clear().
C4_NoDupNoLoss ==
    [][/\ \A x \in Range(command_queue) \ Range(command_queue') :
            \/ /\ sendPc = "pop"
               /\ cmd' = x
               /\ sent' = Append(sent, x)
            \/ /\ command_queue' = << >>
               /\ \/ mainPc = "shutdown_clear" /\ mainPc' = "shutdown_land"
                  \/ recvPc = "events" /\ recvPc' = "emergency_append"
       /\ LET all == sent' \o command_queue'
          IN  \A i, j \in 1..Len(all) : i # j => all[i].id # all[j].id
      ]_vars

\* C4 witness: the sender has transmitted one command while another one,
\* appended by the joystick thread, is waiting in the queue.
C4_Witness ==
    /\ Len(sent) >= 1
    /\ Len(command_queue) >= 1
    /\ sendPc = "sr1"

\* C5: after a reply whose payload cannot be decoded, the sender has
\* reported "unknown" and is still running.
C5_UndecodableContinues ==
    answer = "undecodable" => (outcome = "unknown" /\ sendPc # "dead")

OutOfRangeEvents ==
    {e \in Events : \/ e.type = "JOYBUTTONDOWN" /\ e.index >= Len(button_map)
                    \/ e.type = "JOYAXISMOTION" /\ e.index >= Len(axis_map)}

\* C6: an event whose button or axis index is outside the maps changes
\* neither the queue nor the axis state and does not end the joystick thread.
C6_OutOfRangeIgnored ==
    [][\A e \in OutOfRangeEvents :
          RecvEvent(e) => /\ recvPc' # "dead"
                          /\ UNCHANGED <<command_queue, axis_state>>]_vars

\* C7 as stated: when sr1 times out the sender reports a timeout outcome,
\* does not send the command again and goes back to the head of its loop.
C7_TimeoutReported ==
    [][(sendPc = "sr1" /\ answer' = "None") =>
          /\ outcome' = "timeout"
          /\ sendPc' = "check"
          /\ UNCHANGED <<command_queue, sent>>]_vars

\* C7 amended: when sr1 times out the sender reports "unknown" (there is no
\* separate timeout outcome), does not send the command again and goes back
\* to the head of its loop.
C7_TimeoutUnknown ==
    [][(sendPc = "sr1" /\ answer' = "None") =>
          /\ outcome' = "unknown"
          /\ sendPc' = "check"
          /\ UNCHANGED <<command_queue, sent>>]_vars

\* C7 witness: after a timeout the sender is about to pop the next command.
C7_Witness ==
    /\ answer = "None"
    /\ outcome = "unknown"
    /\ sendPc = "pop"
    /\ Len(command_queue) >= 1

\* C8: once the interrupt has cleared `running`, both threads end, both
\* joins return and run() exits.
C8_ShutdownTerminates ==
    (running = FALSE) ~> (mainPc = "exited")

\* C8 witness: run() has returned after both loops saw the cleared flag.
C8_Witness ==
    /\ mainPc = "exited"
    /\ recvPc = "done"
    /\ sendPc = "done"

MappedAxisEvents ==
    {e \in AxisEvents : /\ Abs(e.value) > AXIS_DEAD
                        /\ e.index < Len(axis_map)
                        /\ axis_map[e.index + 1] \in DOMAIN event_map}

EventAxis(e) == HandlerAxis(event_map[axis_map[e.index + 1]])

\* C9: an axis update appends an rc command exactly when its normalized
\* value differs from the stored one, and the command appended then is
\* "rc <roll> <pitch> <quota> <yaw>" of the axis state with the new value.
C9_RcIffChanged ==
    [][\A e \in MappedAxisEvents :
          RecvEvent(e) =>
            LET axis == EventAxis(e)
                val == AxisVal(axis, e.value)
            IN  IF axis_state[axis] # val
                  THEN /\ axis_state' = [axis_state EXCEPT ![axis] = val]
                       /\ Len(command_queue') = Len(command_queue) + 1
                       /\ SubSeq(command_queue', 1, Len(command_queue)) = command_queue
                       /\ command_queue'[Len(command_queue')].cmd =
                            "rc " \o ToString(axis_state'.roll)
                                  \o " " \o ToString(axis_state'.pitch)
                                  \o " " \o ToString(axis_state'.quota)
                                  \o " " \o ToString(axis_state'.yaw)
                  ELSE UNCHANGED <<command_queue, axis_state>>]_vars

\* C9 witness: two axes have been moved and the last command in the queue
\* is the rc command carrying both.
C9_Witness ==
    /\ axis_state.roll = 49
    /\ axis_state.pitch = -7
    /\ Len(command_queue) = 2
    /\ command_queue[2].cmd = "rc 49 -7 0 0"

\* C10: an axis event with abs(value) <= 2500 changes neither the queue nor
\* the axis state, on any axis index and in any state.
C10_DeadZoneNoEffect ==
    [][\A e \in AxisEvents :
          (Abs(e.value) <= 2500 /\ RecvEvent(e)) =>
             UNCHANGED <<command_queue, axis_state>>]_vars

\* C10 witness: a dead-zone event has been handled after an axis had moved.
C10_Witness ==
    /\ dispatched = "deadzone"
    /\ axis_state # InitAxisState
    /\ Len(command_queue) >= 1

\* the value an axis event is claimed to store, before sign inversion:
\* rawValue * 100 / 32767 truncated toward zero
Truncated(raw) ==
    IF raw >= 0 THEN (raw * 100) \div 32767 ELSE -(((-raw) * 100) \div 32767)

\* round(rawValue * 100 / 32767); no raw value in range falls on a tie
Rounded(raw) ==
    IF raw >= 0 THEN (2 * raw * 100 + 32767) \div 65534
                ELSE -((2 * (-raw) * 100 + 32767) \div 65534)

Inverted(axis, v) == IF axis \in {"quota", "pitch"} THEN -v ELSE v

\* C11: an axis update stores rawValue*100/32767 truncated toward zero,
\* negated for quota and pitch; raw 16383 on LEFT_X from the all-zero state
\* stores roll = 49 and appends exactly "rc 49 0 0 0".
C11_TruncNormalize ==
    [][\A e \in MappedAxisEvents :
          RecvEvent(e) =>
            /\ axis_state'[EventAxis(e)] = Inverted(EventAxis(e), Truncated(e.value))
            /\ (e.index = 0 /\ e.value = 16383 /\ axis_state = InitAxisState) =>
                  /\ axis_state' = [roll |-> 49, quota |-> 0, yaw |-> 0, pitch |-> 0]
                  /\ Len(command_queue') = Len(command_queue) + 1
                  /\ SubSeq(command_queue', 1, Len(command_queue)) = command_queue
                  /\ command_queue'[Len(command_queue')].cmd = "rc 49 0 0 0"]_vars

\* C11 witness: the example has run: roll is 49, the other axes are 0 and
\* the command appended last is "rc 49 0 0 0".
C11_Witness ==
    /\ axis_state = [roll |-> 49, quota |-> 0, yaw |-> 0, pitch |-> 0]
    /\ dispatched = "_set_roll"
    /\ Len(command_queue) >= 1
    /\ command_queue[Len(command_queue)].cmd = "rc 49 0 0 0"

\* C12 as stated: an axis update above the dead zone stores
\* round(rawValue * 100 / 32767), negated for quota and pitch.
C12_RoundNormalize ==
    [][\A e \in MappedAxisEvents :
          RecvEvent(e) =>
            axis_state'[EventAxis(e)] = Inverted(EventAxis(e), Rounded(e.value))]_vars

\* C12 amended: the stored value, negated back for quota and pitch, is
\* rawValue*100/32767 truncated toward zero: the integer v that has the sign
\* of rawValue (or is 0) with |v| * 32767 <= |rawValue| * 100 < (|v| + 1) * 32767.
C12_TruncBounds ==
    [][\A e \in MappedAxisEvents :
          RecvEvent(e) =>
            LET v == Inverted(EventAxis(e), axis_state'[EventAxis(e)])
            IN  /\ v * e.value >= 0
                /\ Abs(v) * 32767 <= Abs(e.value) * 100
                /\ Abs(e.value) * 100 < (Abs(v) + 1) * 32767]_vars

\* C12 witness: a half deflection was stored as 49 where rounding gives 50,
\* on an axis whose sign is inverted.
C12_Witness ==
    /\ axis_state.quota = -49
    /\ dispatched = "_set_quota"
    /\ Len(command_queue) >= 1
    /\ command_queue[Len(command_queue)].cmd = "rc 0 0 -49 0"

Percent == -100..100

\* C13: every axis-state value is an integer in [-100, 100], and every
\* command appended to the queue is one of the four fixed words or the rc
\* rendering of four integers in [-100, 100].
C13_AxisRange ==
    /\ [](\A a \in DOMAIN axis_state : axis_state[a] \in Percent)
    /\ [][Len(command_queue') > Len(command_queue) =>
            LET x == command_queue'[Len(command_queue')]
            IN  \/ x.cmd \in {"land", "takeoff", "command", "emergency"}
                \/ /\ \A a \in DOMAIN axis_state' : axis_state'[a] \in Percent
                   /\ x.cmd = "rc " \o ToString(axis_state'.roll)
                                    \o " " \o ToString(axis_state'.pitch)
                                    \o " " \o ToString(axis_state'.quota)
                                    \o " " \o ToString(axis_state'.yaw)]_vars

\* C13 witness: the lowest raw value has been stored on a plain axis and on
\* an inverted one, reaching both ends of the range.
C13_Witness ==
    /\ axis_state.roll = -100
    /\ axis_state.pitch = 100
    /\ Len(command_queue) >= 1
    /\ command_queue[Len(command_queue)].cmd = "rc -100 100 0 0"

\* the commands a handler can append in the current state
Appendable ==
    {"land", "takeoff", "command", "emergency", RcCommand(axis_state)}

\* C14: with no other thread in between, append(cmd) followed by pop()
\* returns exactly cmd and leaves the queue as it was, whatever it held.
C14_PushPop ==
    \A c \in Appendable :
        LET p == DequePop(DequeAppend(command_queue, Entry(c)))
        IN  /\ p.item = Entry(c)
            /\ p.rest = command_queue

\* C14 witness: the sender has popped the command appended last while an
\* older command is still in the queue.
C14_Witness ==
    /\ sendPc = "sr1"
    /\ cmd.id = nextId - 1
    /\ Len(command_queue) >= 1
    /\ command_queue[1].id < cmd.id

UnboundEvents ==
    {e \in Events :
        \/ /\ e.type = "JOYBUTTONDOWN"
           /\ e.index < 10
           /\ button_map[e.index + 1] \in {"B", "X", "LB", "RB", "JL", "JR"}
        \/ /\ e.type = "JOYAXISMOTION"
           /\ Abs(e.value) > 2500
           /\ e.index < 6
           /\ axis_map[e.index + 1] \in {"LT", "RT"}}

\* C15: a button-down or above-dead-zone axis event on an identifier with
\* no bound action changes neither the queue nor the axis state, and the
\* joystick loop goes on with the next event.
C15_UnboundIgnored ==
    [][\A e \in UnboundEvents :
          RecvEvent(e) => /\ UNCHANGED <<command_queue, axis_state>>
                          /\ recvPc' \in {"events", "check"}]_vars

\* C15 witness: an unbound identifier was handled with commands queued and
\* an axis moved, and the loop is at its next event.
C15_Witness ==
    /\ dispatched = "KeyError"
    /\ recvPc = "events"
    /\ Len(command_queue) >= 1
    /\ axis_state # InitAxisState

AppendingButtons == {3, 6, 7}

ButtonWord(index) ==
    CASE index = 6 -> "land"
      [] index = 7 -> "takeoff"
      [] index = 3 -> "command"

\* C16: SELECT appends "land" and clears nothing: the commands queued
\* before are still there in the same order; START and Y likewise append
\* "takeoff" and "command".
C16_LandKeepsQueue ==
    [][\A e \in ButtonEvents :
          (e.index \in AppendingButtons /\ RecvEvent(e)) =>
             /\ Len(command_queue') = Len(command_queue) + 1
             /\ SubSeq(command_queue', 1, Len(command_queue)) = command_queue
             /\ command_queue'[Len(command_queue')].cmd = ButtonWord(e.index)
             /\ UNCHANGED axis_state]_vars

\* C16 witness: SELECT was pressed with a command queued, and "land" now
\* follows it.
C16_Witness ==
    /\ dispatched = "_land"
    /\ Len(command_queue) = 2
    /\ command_queue[1].cmd = "takeoff"
    /\ command_queue[2].cmd = "land"

CommandIds == 1..(MaxCmds + 1)

\* C17: while `running` stays set, every queued command that no clear()
\* removes is eventually transmitted by the sender.
C17_NoStarvation ==
    \A i \in CommandIds :
        [](i \in Ids(command_queue) =>
              <>(\/ i \in Ids(sent)
                 \/ (i \notin Ids(command_queue) /\ i \notin Ids(sent))
                 \/ ~running))

PostClear == {"shutdown_land", "join_recv", "join_send", "exited"}

\* C18: once the shutdown sequence has cleared the queue, every command the
\* sender dequeues is "land".
C18_OnlyLandAfterClear ==
    [][(mainPc \in PostClear /\ Len(sent') > Len(sent)) =>
          cmd'.cmd = "land"]_vars

\* C19: once `running` is cleared it stays cleared and the sender never
\* comes back to its pop: a transmission starts only from a pop whose loop
\* test came before, and adds one command to the wire; a transmission in
\* flight goes on to its reply with the command unchanged, and the sender
\* then ends.
C19_AtMostOneMore ==
    /\ [][~running =>
             /\ ~running'
             /\ (sendPc' = "pop" => sendPc = "pop")
             /\ (Len(sent') > Len(sent) =>
                    /\ sendPc = "pop"
                    /\ sendPc' = "sr1"
                    /\ Len(sent') = Len(sent) + 1)
             /\ ((sendPc = "sr1" /\ sendPc' # "sr1") =>
                    /\ answer' \in Answers
                    /\ outcome' = Report(Decode(answer'))
                    /\ cmd' = cmd
                    /\ sent' = sent)]_vars
    /\ (~running /\ sendPc = "sr1") ~> (answer # "unset")
    /\ (~running /\ sendPc # "new") ~> Terminated(sendPc)

\* C19 witness: the shutdown "land", appended after the flag was cleared,
\* went on the wire, its reply was reported, and the sender has ended.
C19_Witness ==
    /\ ~running
    /\ landId # 0
    /\ cmd.id = landId
    /\ outcome = "response"
    /\ sendPc = "done"

AxisNames == DOMAIN InitAxisState

\* C20: every axis value is 0 or at least 7 in magnitude, and no joystick
\* event sets a non-zero axis value back to 0.
C20_NeverRecentred ==
    /\ [](\A a \in AxisNames : axis_state[a] = 0 \/ Abs(axis_state[a]) >= 7)
    /\ [][\A a \in AxisNames : axis_state[a] # 0 => axis_state'[a] # 0]_vars

\* C20 witness: roll sits at the smallest magnitude and a centred-stick
\* event has been dropped after it.
C20_Witness ==
    /\ axis_state.roll = 7
    /\ axis_state.yaw = -100
    /\ dispatched = "deadzone"

====
